---- MODULE Spec2Model ----
(***************************************************************************)
(* Book assistant: prompt construction (create_query), the book server's   *)
(* four endpoints, the memory backend they talk to, and the Streamlit      *)
(* frontend helpers.                                                       *)
(*                                                                         *)
(* Text is modelled as a sequence of tokens.  A token is a TLA+ string: a  *)
(* visible character ("a"), a whitespace character (" ", "\n"), or a       *)
(* section tag of the prompt template ("<USER_QUERY>").  Python values     *)
(* that may be None or of another type are tagged records.                 *)
(***************************************************************************)
EXTENDS Integers, Sequences, FiniteSets, TLC

\* ---------------------------------------------------------------- bounds
\* longest profile / context / query handed to create_query
MaxLen == 2
\* number of calendar days the clock may show
MaxDate == 2
\* seconds a Streamlit session is followed
MaxTime == 40

\* ---------------------------------------------------------------- values
None == [t |-> "none", s |-> << >>]
Str(s) == [t |-> "str", s |-> s]
\* a value that is neither None nor a str (a list, a number)
NonStr == [t |-> "other", s |-> << >>]

\* Python truthiness of None / str / a non-empty object
Truthy(v) == IF v.t = "str" THEN v.s # << >> ELSE v.t = "other"

IsWhitespace(tok) == tok \in {" ", "\n"}

RECURSIVE LStrip(_)
LStrip(s) ==
  IF s = << >> THEN << >>
  ELSE IF IsWhitespace(Head(s)) THEN LStrip(Tail(s)) ELSE s

RECURSIVE RStrip(_)
RStrip(s) ==
  IF s = << >> THEN << >>
  ELSE IF IsWhitespace(s[Len(s)]) THEN RStrip(SubSeq(s, 1, Len(s) - 1)) ELSE s

\* str.strip()
Strip(s) == RStrip(LStrip(s))

RECURSIVE Concat(_)
\* "".join(parts) for a sequence of token sequences
Concat(parts) ==
  IF parts = << >> THEN << >> ELSE Head(parts) \o Concat(Tail(parts))

\* occurrences of token tok in s
RECURSIVE Count(_, _)
Count(tok, s) ==
  IF s = << >> THEN 0
  ELSE (IF Head(s) = tok THEN 1 ELSE 0) + Count(tok, Tail(s))

Range(f) == {f[i] : i \in DOMAIN f}

\* all token sequences over alphabet A of length at most n
SeqsUpTo(A, n) == UNION {[1..k -> A] : k \in 0..n}

\* ------------------------------------------------- the module-level CONFIG
\* A dict is a sequence of <<key, value>> pairs in insertion order.
RECURSIVE DictHas(_, _)
DictHas(d, k) ==
  IF d = << >> THEN FALSE
  ELSE IF Head(d)[1] = k THEN TRUE ELSE DictHas(Tail(d), k)

RECURSIVE DictSet(_, _, _)
\* d[k] = v : replaces the value of an existing key, else appends the key
DictSet(d, k, v) ==
  IF d = << >> THEN << <<k, v>> >>
  ELSE IF Head(d)[1] = k THEN << <<k, v>> >> \o Tail(d)
       ELSE << Head(d) >> \o DictSet(Tail(d), k, v)

\* CONFIG of book_agent/book_query_constructor.py: its first and last keys
\* stand for the 16 string-valued entries; no value holds a section tag.
BookConfig ==
  << <<"SYSTEM_PROMPT", Str(<<"\n", "You are an expert book assistant", "\n">>)>>,
     <<"BOOK_OUTPUT_TEMPLATE", Str(<<"prefer PROFILE over BOOK_DATA">>)>> >>

\* _current_date_iso(): the clock's day as YYYY-MM-DD
CurrentDateIso(day) == << "2026-11-0" \o ToString(day) >>

\* CONFIG of examples/book_agent/book_query_constructor.py (14 entries, no
\* BOOK_LOGGING_RULES)
ExamplesBookConfig ==
  << <<"SYSTEM_PROMPT", Str(<<"\n", "You are an expert book assistant", "\n">>)>>,
     <<"RECOMMENDATION_FORMAT", Str(<<"prefer PROFILE over BOOK_DATA">>)>> >>

\* the modules that define a CONFIG and a BookQueryConstructor
BookModules == {"book_agent", "examples"}
Classes == BookModules \cup {"financial"}

InitialConfig(m) == IF m = "book_agent" THEN BookConfig ELSE ExamplesBookConfig

\* ------------------------------------------------------------ json.dumps
\* json's string escaping: a newline becomes the two characters \n
JsonEscape(s) == [i \in 1..Len(s) |-> IF s[i] = "\n" THEN "\\n" ELSE s[i]]

RECURSIVE JsonItems(_)
JsonItems(d) ==
  IF d = << >> THEN << >>
  ELSE <<"\"", Head(d)[1], "\"", ":", "\"">> \o JsonEscape(Head(d)[2].s) \o <<"\"">>
       \o (IF Tail(d) = << >> THEN <<"\n">> ELSE <<",", "\n">>)
       \o JsonItems(Tail(d))

Serializable(d) == \A i \in 1..Len(d) : d[i][2].t = "str"

\* json.dumps(current_config, indent=2) with the TypeError/ValueError handler
\* of create_query around it
ConfigJson(d) ==
  IF Serializable(d) THEN <<"{", "\n">> \o JsonItems(d) \o <<"}">>
  ELSE <<"{\"error\": \"Configuration serialization failed\"}">>

\* ------------------------------------------------------------- templates
Placeholders ==
  {"{config_json}", "{profile}", "{context_block}", "{query}", "{current_date}"}

\* _build_unified_query_template(): the literal, then .strip()
BuildUnifiedQueryTemplate ==
  Strip(<<"\n",
          "<SYSTEM_PROMPT>", "\n", "{config_json}", "\n", "</SYSTEM_PROMPT>", "\n",
          "\n",
          "<DATA>", "\n",
          "<PROFILE>", "\n", "{profile}", "\n", "</PROFILE>", "\n",
          "\n",
          "<BOOK_DATA>", "\n", "{context_block}", "\n", "</BOOK_DATA>", "\n",
          "\n",
          "<USER_QUERY>", "\n", "{query}", "\n", "</USER_QUERY>", "\n",
          "</DATA>", "\n">>)

\* FinancialAnalystQueryConstructor.__init__: the literal, not stripped
FinancialTemplate ==
  <<"\n", "You are a helpful financial analyst assistant.", "\n",
    "\n",
    "<CURRENT_DATE>", "\n", "{current_date}", "\n", "</CURRENT_DATE>", "\n",
    "\n",
    "Instructions:", "\n",
    "\n",
    "<PROFILE>", "\n", "{profile}", "\n", "</PROFILE>", "\n",
    "\n",
    "<CONTEXT>", "\n", "{context_block}", "\n", "</CONTEXT>", "\n",
    "\n",
    "<USER_QUERY>", "\n", "{query}", "\n", "</USER_QUERY>", "\n">>

InitialTemplate(c) ==
  IF c \in BookModules THEN BuildUnifiedQueryTemplate ELSE FinancialTemplate

\* str(v) as str.format renders an argument
Render(v) == IF v.t = "str" THEN v.s ELSE IF v.t = "none" THEN <<"None">> ELSE <<"[object]">>

\* the first placeholder of the template that args does not supply, or ""
RECURSIVE MissingKey(_, _)
MissingKey(template, args) ==
  IF template = << >> THEN ""
  ELSE IF Head(template) \in Placeholders /\ Head(template) \notin DOMAIN args
       THEN Head(template)
       ELSE MissingKey(Tail(template), args)

RECURSIVE Substitute(_, _)
\* every placeholder replaced by its argument; an argument is inserted as it
\* is and never scanned for placeholders itself
Substitute(template, args) ==
  IF template = << >> THEN << >>
  ELSE (IF Head(template) \in Placeholders
        THEN Render(args[Head(template)])
        ELSE << Head(template) >>)
       \o Substitute(Tail(template), args)

\* str.format(**args)
Format(template, args) ==
  IF MissingKey(template, args) # ""
  THEN [ok |-> FALSE, key |-> MissingKey(template, args), value |-> << >>]
  ELSE [ok |-> TRUE, key |-> "", value |-> Substitute(template, args)]

\* ---------------------------------------------------------- create_query
Return(v) == [kind |-> "return", exc |-> "", msg |-> "", value |-> v]
Raise(exc, msg) == [kind |-> "raise", exc |-> exc, msg |-> msg, value |-> << >>]

\* the guard written as `not query` alone
QueryIsBlank_NoStrip(query) == ~Truthy(query)

\* `not query or not query.strip()`
QueryIsBlank(query) == ~Truthy(query) \/ Strip(query.s) = << >>

\* profile_str = profile or ""
ProfileStr(profile) == IF Truthy(profile) THEN profile ELSE Str(<< >>)

\* the context block without its two trailing newlines
ContextBlock_NoNewlines(context) ==
  IF Truthy(context) THEN Str(Render(context)) ELSE Str(<< >>)

\* context_block = f"{context}\n\n" if context else ""
ContextBlock(context) ==
  IF Truthy(context) THEN Str(Render(context) \o <<"\n", "\n">>) ELSE Str(<< >>)

\* current_config = CONFIG.copy(); current_config["CURRENT_DATE"] = today
CurrentConfig(config, day) == DictSet(config, "CURRENT_DATE", Str(CurrentDateIso(day)))

\* the fallback of both constructors: f"{profile_str}\n\n{context_block}{query}"
Fallback(profile, context, query) ==
  Render(ProfileStr(profile)) \o <<"\n", "\n">> \o ContextBlock(context).s \o Render(query)

\* BookQueryConstructor.create_query, after the guards
BookFormat(config, template, profile, context, query, day) ==
  LET r == Format(template,
                  [k \in {"{config_json}", "{profile}", "{context_block}", "{query}"} |->
                     CASE k = "{config_json}" -> Str(ConfigJson(CurrentConfig(config, day)))
                       [] k = "{profile}" -> ProfileStr(profile)
                       [] k = "{context_block}" -> ContextBlock(context)
                       [] OTHER -> query])
  IN IF r.ok THEN Return(r.value)
     ELSE Raise("RuntimeError",
                "Failed to format prompt due to missing key: " \o r.key)

BookCreateQuery(config, template, profile, context, query, day) ==
  IF QueryIsBlank(query) THEN Raise("ValueError", "Query cannot be empty")
  ELSE IF profile.t = "other" THEN Raise("ValueError", "Profile must be a string or None")
  ELSE IF context.t = "other" THEN Raise("ValueError", "Context must be a string or None")
  ELSE BookFormat(config, template, profile, context, query, day)

\* FinancialAnalystQueryConstructor.create_query
FinancialCreateQuery(template, profile, context, query, day) ==
  IF QueryIsBlank(query) THEN Raise("ValueError", "Query cannot be empty")
  ELSE LET r == Format(template,
                  [k \in {"{current_date}", "{profile}", "{context_block}", "{query}"} |->
                     CASE k = "{current_date}" -> Str(CurrentDateIso(day))
                       [] k = "{profile}" -> ProfileStr(profile)
                       [] k = "{context_block}" -> ContextBlock(context)
                       [] OTHER -> query])
       IN IF r.ok THEN Return(r.value) ELSE Return(Fallback(profile, context, query))

\* create_query of class c, run without interruption
CreateQuery(c, config, template, profile, context, query, day) ==
  IF c \in BookModules
  THEN BookCreateQuery(config, template, profile, context, query, day)
  ELSE FinancialCreateQuery(template, profile, context, query, day)

\* ------------------------------------------------------------------ state
VARIABLES
  CONFIG,           \* module -> the module-level CONFIG dict
  prompt_template,  \* class -> self.prompt_template of its one instance
  today,            \* the day datetime.now() shows
  call,             \* caller -> a create_query call and its local variables
  api_key,          \* os.getenv("OPENAI_API_KEY") in the server's environment
  episodes,         \* the episodes the memory backend holds, oldest first
  req,              \* request slot -> an endpoint invocation and its log
  ui,               \* request slot -> the frontend helper call behind it
  frontend,         \* which book_frontend.py the browser session runs
  session_state,    \* st.session_state of that session
  now,              \* time.time() of that session, in seconds
  run               \* what the latest run of the script did and showed

cqVars == <<CONFIG, prompt_template, today, call>>
srvVars == <<api_key, episodes, req, ui>>
pageVars == <<frontend, session_state, now, run>>
vars == <<cqVars, srvVars, pageVars>>

\* ------------------------------------------------- the Streamlit session
Frontends == {"book_agent", "examples"}

\* `(current_time - connection_last_checked) > 30`
CacheSeconds == 30

\* connection_last_checked = None
NeverChecked == -1

\* st.session_state after the `not in st.session_state` initialisations
NoSessionState ==
  [connection_status |-> None, connection_last_checked |-> NeverChecked,
   quick_query |-> None]

\* a run of the script: the page it drew, whether its sidebar sent the test
\* request, the status box it showed, the text the question box was filled
\* with, the button pressed, the question asked and the helper's status
NoRun ==
  [page |-> "", probed |-> FALSE, sidebar |-> "", text_area |-> FALSE,
   prefill |-> None, pressed |-> "", ai_query |-> None, status |-> "",
   rerun |-> FALSE]

\* no browser session is open
NoPage ==
  /\ frontend = "book_agent"
  /\ session_state = NoSessionState
  /\ now = 0
  /\ run = NoRun

Callers == {"c1", "c2"}

IdleCall ==
  [pc |-> "idle", cls |-> "book_agent", profile |-> None, context |-> None,
   query |-> None, day |-> 0, current_config |-> << >>, config_json |-> << >>,
   result |-> Return(<< >>)]

NewCall(c, profile, context, query) ==
  [IdleCall EXCEPT !.pc = "ready", !.cls = c, !.profile = profile,
                   !.context = context, !.query = query]

\* state after import: the CONFIG dicts and one constructor per class
InitModules ==
  /\ CONFIG = [m \in BookModules |-> InitialConfig(m)]
  /\ prompt_template = [c \in Classes |-> InitialTemplate(c)]
  /\ today = 1

\* the clock passes midnight
Tick ==
  /\ today < MaxDate
  /\ today' = today + 1
  /\ UNCHANGED <<CONFIG, prompt_template, call, srvVars, pageVars>>

\* ------------------------------------------------------ the memory backend
Users == {"u1", "u2"}
\* query texts a client sends: whitespace only, and a word
Queries == {<<" ">>, <<"a">>}
\* book_message_id of POST /memory: None, "" and an id
BookMessageIds == {None, Str(<< >>), Str(<<"m1">>)}

\* two invocations, so that any two requests can overlap
ReqIds == {1, 2}

\* session_data of every endpoint
SessionData(user_id, session_id) ==
  [group_id |-> user_id, agent_id |-> <<"assistant">>, user_id |-> <<user_id>>,
   session_id |-> session_id]

NoSession == [group_id |-> "", agent_id |-> << >>, user_id |-> << >>, session_id |-> ""]

\* a search request that names no producer_id in its filter
SearchData_NoFilter(session, query, limit, producer_id, timeout) ==
  [kind |-> "search", session |-> session, text |-> query, limit |-> limit,
   filter |-> "", producer |-> "", produced_for |-> "",
   book_message_id |-> None, has_book_message_id |-> FALSE, timeout |-> timeout]

\* a request body sent to POST /v1/memories/search
SearchData(session, query, limit, producer_id, timeout) ==
  [kind |-> "search", session |-> session, text |-> query, limit |-> limit,
   filter |-> producer_id, producer |-> "", produced_for |-> "",
   book_message_id |-> None, has_book_message_id |-> FALSE, timeout |-> timeout]

\* the episode sent with its content stripped of surrounding whitespace
EpisodeData_Stripped(session, user_id, query, has_id, book_message_id, timeout) ==
  [kind |-> "store", session |-> session, text |-> Strip(query), limit |-> 0,
   filter |-> "", producer |-> user_id, produced_for |-> "assistant",
   book_message_id |-> book_message_id, has_book_message_id |-> has_id,
   timeout |-> timeout]

\* a request body sent to POST /v1/memories
EpisodeData(session, user_id, query, has_id, book_message_id, timeout) ==
  [kind |-> "store", session |-> session, text |-> query, limit |-> 0,
   filter |-> "", producer |-> user_id, produced_for |-> "assistant",
   book_message_id |-> book_message_id, has_book_message_id |-> has_id,
   timeout |-> timeout]

\* the chat completion sent with the user's raw query as its content
LlmCall_OriginalQuery(formatted_query, original_query) ==
  [kind |-> "llm", session |-> NoSession, text |-> original_query, limit |-> 0,
   filter |-> "", producer |-> "", produced_for |-> "",
   book_message_id |-> None, has_book_message_id |-> FALSE, timeout |-> 0]

\* the chat completion request of generate_openai_response(formatted_query,
\* original_query); the call passes no timeout
LlmCall(formatted_query, original_query) ==
  [kind |-> "llm", session |-> NoSession, text |-> formatted_query, limit |-> 0,
   filter |-> "", producer |-> "", produced_for |-> "",
   book_message_id |-> None, has_book_message_id |-> FALSE, timeout |-> 0]

\* the episode the backend keeps for a store request of invocation r
Episode(r, data) ==
  [rid |-> r, shape |-> "dict", producer |-> data.producer, content |-> data.text,
   book_message_id |-> data.book_message_id]

\* an episodic memory as the backend returns it. Its shape is "dict" for a
\* dict whose 'metadata' is a dict holding book_message_id, "flat" for a dict
\* that holds book_message_id but has no 'metadata', "str" for a bare string.
Memory(e) ==
  [shape |-> e.shape, content |-> e.content, producer |-> e.producer,
   book_message_id |-> e.book_message_id]

\* str(memory)
MemoryStr(mem) == <<"{'content': '">> \o mem.content \o <<"'}">>

RECURSIVE SelectSeq2(_, _)
\* the episodes of producer u, oldest first
SelectSeq2(es, u) ==
  IF es = << >> THEN << >>
  ELSE (IF Head(es).producer = u THEN << Head(es) >> ELSE << >>) \o SelectSeq2(Tail(es), u)

Take(s, n) == IF Len(s) <= n THEN s ELSE SubSeq(s, 1, n)

\* what the backend may find for a search: the filter producer_id and the
\* limit are honoured; the semantic search returns the matches or nothing
Hits(data) ==
  LET all == Take(SelectSeq2(episodes, data.filter), data.limit)
  IN {[i \in 1..Len(all) |-> Memory(all[i])], << >>}

ProfileMemories == {<< >>, <<"likes sci-fi">>}

\* an HTTP answer, or the exception requests raises instead of one
Answer(status, body, episodic, profile) ==
  [exc |-> "", status |-> status, body |-> body, episodic_memory |-> episodic,
   profile_memory |-> profile]
NoAnswer(exc) ==
  [exc |-> exc, status |-> 0, body |-> "", episodic_memory |-> << >>,
   profile_memory |-> << >>]

\* every way POST /v1/memories/search can end: 200 with the JSON result, 200
\* or 201 with a body that is no JSON object, 500, or no answer in time
SearchAnswers(data) ==
  {Answer(200, "dict", h, p) : h \in Hits(data), p \in ProfileMemories}
  \cup {Answer(200, "text", << >>, << >>), Answer(201, "list", << >>, << >>),
        Answer(500, "text", << >>, << >>), NoAnswer("Timeout")}

\* every way POST /v1/memories can end, with whether the episode was stored
StoreAnswers ==
  {[stored |-> TRUE, answer |-> Answer(200, "dict", << >>, << >>)],
   [stored |-> TRUE, answer |-> Answer(201, "dict", << >>, << >>)],
   [stored |-> FALSE, answer |-> Answer(500, "text", << >>, << >>)],
   [stored |-> FALSE, answer |-> NoAnswer("Timeout")],
   [stored |-> TRUE, answer |-> NoAnswer("Timeout")]}

\* ------------------------------------------------------ requests and json
NoExc == [exc |-> "", msg |-> ""]
Exc(exc, msg) == [exc |-> exc, msg |-> msg]

\* requests.post: the exception it raises, if it raises
PostError(a) == IF a.exc # "" THEN Exc(a.exc, "Read timed out.") ELSE NoExc

\* response.raise_for_status(): HTTPError for 4xx and 5xx
RaiseForStatus(a) ==
  IF a.status >= 400 /\ a.status < 600
  THEN Exc("HTTPError", ToString(a.status) \o " Server Error")
  ELSE NoExc

\* response.json() and the .get("content", {}) chain on its value
JsonError(a) ==
  CASE a.body = "text" -> Exc("JSONDecodeError", "Expecting value")
    [] a.body = "list" -> Exc("AttributeError", "'list' object has no attribute 'get'")
    [] OTHER -> NoExc

\* the first exception of a sequence of steps
FirstExc(steps) ==
  IF \E i \in 1..Len(steps) : steps[i] # NoExc
  THEN steps[CHOOSE i \in 1..Len(steps) :
               steps[i] # NoExc /\ \A j \in 1..(i - 1) : steps[j] = NoExc]
  ELSE NoExc

RECURSIVE Join(_, _)
\* sep.join(parts)
Join(sep, parts) ==
  IF parts = << >> THEN << >>
  ELSE IF Len(parts) = 1 THEN Head(parts)
  ELSE Head(parts) \o sep \o Join(sep, Tail(parts))

\* profile_str: "\n".join(str(p) for p in profile_memory), "" when empty
ProfileOf(a) == Join(<<"\n">>, [i \in 1..Len(a.profile_memory) |-> <<a.profile_memory[i]>>])

\* context_str: "\n".join(str(c) for c in episodic_memory), "" when empty
ContextOf(a) ==
  Join(<<"\n">>, [i \in 1..Len(a.episodic_memory) |-> MemoryStr(a.episodic_memory[i])])

\* ---------------------------------------------------- endpoint invocations
Endpoints == {"store_data", "process_ai_query", "get_data", "store_and_search_data"}

\* a response body: a JSON object with a status, or a bare string
NoResponse ==
  [kind |-> "none", status |-> "", message |-> "", ai_response |-> << >>,
   response |-> << >>, context |-> << >>, formatted_query |-> << >>,
   query |-> << >>, text |-> << >>]
ErrorResponse(msg) == [NoResponse EXCEPT !.kind = "dict", !.status = "error", !.message = msg]
SkippedResponse ==
  [NoResponse EXCEPT !.kind = "dict", !.status = "skipped",
                     !.message = "Message already processed"]
SuccessResponse == [NoResponse EXCEPT !.kind = "dict", !.status = "success"]
TextResponse(text) == [NoResponse EXCEPT !.kind = "str", !.text = text]

NoFound == [episodic_memory |-> << >>, profile_memory |-> << >>]

\* generate_openai_response was not called
NoLlm == [ran |-> FALSE, outcome |-> "", raised |-> NoExc, value |-> None]

IdleReq ==
  [pc |-> "idle", endpoint |-> "", user_id |-> "", query |-> << >>,
   book_message_id |-> None,
   out |-> << >>,              \* the outbound calls made, in order
   processed |-> "",           \* what is_book_message_processed returned
   checked |-> NoAnswer(""),   \* the answer its search got
   llm |-> NoLlm,              \* the call of generate_openai_response
   raised |-> NoExc,           \* the exception raised in the endpoint's body
   found |-> NoFound,          \* episodic and profile memory of its search
   store_response |-> NoAnswer(""),  \* store-and-search: what its store got
   search_response |-> NoAnswer(""), \* store-and-search: what its search got
   profile_str |-> << >>, context_str |-> << >>,
   formatted_query |-> << >>, ai_response |-> << >>,
   response |-> NoResponse]

\* a helper call: its result once it returned, and what the page then shows
NoResult == [kind |-> "none", status |-> "", message |-> "", data |-> NoResponse]

NoCall ==
  [fn |-> "", pc |-> "none", timeout |-> 0,
   ended |-> "",        \* how the HTTP call ended: reply, timeout, ...
   result |-> NoResult, \* the dict the helper returned
   raised |-> NoExc,    \* the exception that left the helper
   shown |-> "",        \* the message box the page shows
   answer |-> << >>]    \* the AI answer the page shows

\* OPENAI_API_KEY: unset or set to a key
ApiKeys == {None, Str(<<"sk">>)}

InitBackend ==
  /\ NoPage
  /\ episodes = << >>
  /\ req = [r \in ReqIds |-> IdleReq]
  /\ ui = [r \in ReqIds |-> NoCall]

InitServer ==
  /\ api_key = None
  /\ InitBackend

\* the entry with `book_message_id is not None` in place of its truth value
FirstPc_NotNone(endpoint, book_message_id) ==
  CASE endpoint = "store_data" ->
         IF book_message_id # None THEN "sd_check" ELSE "sd_store"
    [] endpoint = "process_ai_query" -> "aq_search"
    [] endpoint = "get_data" -> "gd_search"
    [] OTHER -> "ss_store"

\* the first step of each endpoint
FirstPc(endpoint, book_message_id) ==
  CASE endpoint = "store_data" ->
         IF Truthy(book_message_id) THEN "sd_check" ELSE "sd_store"
    [] endpoint = "process_ai_query" -> "aq_search"
    [] endpoint = "get_data" -> "gd_search"
    [] OTHER -> "ss_store"

\* the invocation record of a request as the handler starts
Started(e, u, q, b) ==
  [IdleReq EXCEPT !.pc = FirstPc(e, b), !.endpoint = e, !.user_id = u,
                  !.query = q, !.book_message_id = b]

\* Slots and users are interchangeable: slots are taken in order and the
\* first request is the one of user u1.
MayStart(r, u) ==
  /\ req[r].pc = "idle"
  /\ \A r2 \in ReqIds : r2 < r => req[r2].pc # "idle"
  /\ (r = 1) => (u = "u1")

\* a client calls one of the endpoints E
ReceiveAt(r, E) ==
  /\ \E e \in E, u \in Users, q \in Queries, b \in BookMessageIds :
       /\ MayStart(r, u)
       /\ e # "store_data" => b = None
       /\ req' = [req EXCEPT ![r] = Started(e, u, q, b)]
  /\ UNCHANGED <<pageVars, cqVars, api_key, episodes, ui>>

\* a client calls an endpoint
Receive(r) == ReceiveAt(r, Endpoints)

\* is_book_message_processed without its two isinstance tests
IsProcessed_AnyShape(a, book_message_id) ==
  /\ FirstExc(<<PostError(a), RaiseForStatus(a), JsonError(a)>>) = NoExc
  /\ \E i \in 1..Len(a.episodic_memory) :
       a.episodic_memory[i].book_message_id = book_message_id

\* is_book_message_processed: True exactly for a readable answer that holds
\* a dict memory whose metadata carries this book_message_id
IsProcessed(a, book_message_id) ==
  /\ FirstExc(<<PostError(a), RaiseForStatus(a), JsonError(a)>>) = NoExc
  /\ \E i \in 1..Len(a.episodic_memory) :
       /\ a.episodic_memory[i].shape = "dict"
       /\ a.episodic_memory[i].book_message_id = book_message_id

\* the duplicate check without the `except Exception` of
\* is_book_message_processed: its exception reaches the handler of store_data
SdCheck_FailClosed(r) ==
  /\ req[r].pc = "sd_check"
  /\ LET q == req[r]
         data == SearchData(SessionData(q.user_id, "session_" \o q.user_id),
                            <<"book_message_id", " ">> \o q.book_message_id.s,
                            5, q.user_id, 10)
     IN \E a \in SearchAnswers(data) :
          LET e == FirstExc(<<PostError(a), RaiseForStatus(a), JsonError(a)>>)
              found == IsProcessed(a, q.book_message_id)
              sent == [q EXCEPT !.out = Append(q.out, data), !.checked = a,
                                !.processed = IF e # NoExc THEN "check failed"
                                              ELSE IF found THEN "True" ELSE "False"]
          IN req' = [req EXCEPT ![r] =
                IF e # NoExc THEN [sent EXCEPT !.pc = "done", !.raised = e,
                                               !.response = ErrorResponse(e.msg)]
                ELSE IF found
                THEN [sent EXCEPT !.pc = "done", !.response = SkippedResponse]
                ELSE [sent EXCEPT !.pc = "sd_store"]]
  /\ UNCHANGED <<pageVars, cqVars, api_key, episodes, ui>>

\* POST /memory, lines 118-120: the duplicate check
SdCheck(r) ==
  /\ req[r].pc = "sd_check"
  /\ LET q == req[r]
         data == SearchData(SessionData(q.user_id, "session_" \o q.user_id),
                            <<"book_message_id", " ">> \o q.book_message_id.s,
                            5, q.user_id, 10)
     IN \E a \in SearchAnswers(data) :
          LET failed == FirstExc(<<PostError(a), RaiseForStatus(a), JsonError(a)>>) # NoExc
              found == IsProcessed(a, q.book_message_id)
              sent == [q EXCEPT !.out = Append(q.out, data), !.checked = a,
                                !.processed = IF failed THEN "check failed"
                                              ELSE IF found THEN "True" ELSE "False"]
          IN req' = [req EXCEPT ![r] =
                IF found
                THEN [sent EXCEPT !.pc = "done", !.response = SkippedResponse]
                ELSE [sent EXCEPT !.pc = "sd_store"]]
  /\ UNCHANGED <<pageVars, cqVars, api_key, episodes, ui>>

\* POST /memory, lines 122-146: store the episode
SdStore(r) ==
  /\ req[r].pc = "sd_store"
  /\ LET q == req[r]
         data == EpisodeData(SessionData(q.user_id, "session_" \o q.user_id),
                             q.user_id, q.query, TRUE, q.book_message_id, 1000)
     IN \E s \in StoreAnswers :
          LET e == FirstExc(<<PostError(s.answer), RaiseForStatus(s.answer),
                              JsonError(s.answer)>>)
              sent == [q EXCEPT !.out = Append(q.out, data)]
          IN /\ episodes' = IF s.stored THEN Append(episodes, Episode(r, data)) ELSE episodes
             /\ req' = [req EXCEPT ![r] =
                  [sent EXCEPT !.pc = "done", !.raised = e,
                     !.response = IF e = NoExc THEN SuccessResponse
                                  ELSE ErrorResponse(e.msg)]]
  /\ UNCHANGED <<pageVars, cqVars, api_key, ui>>

\* ------------------------------------------- create_query as one function
\* inputs of the single call
TextAlphabet == {"a", " "}
QueryAlphabet == {"a", " ", "<USER_QUERY>"}
ProfileInputs == {None, NonStr} \cup {Str(s) : s \in SeqsUpTo(TextAlphabet, MaxLen)}
QueryInputs == {None} \cup {Str(s) : s \in SeqsUpTo(QueryAlphabet, MaxLen)}

InitCQ ==
  /\ InitModules
  /\ InitServer
  /\ \E c \in Classes, p \in ProfileInputs, x \in ProfileInputs, q \in QueryInputs :
       call = [k \in Callers |-> IF k = "c1" THEN NewCall(c, p, x, q) ELSE IdleCall]

\* one whole call of create_query
CallCreateQuery ==
  /\ call["c1"].pc = "ready"
  /\ LET a == call["c1"]
         cfg == IF a.cls \in BookModules THEN CONFIG[a.cls] ELSE << >>
     IN call' = [call EXCEPT !["c1"].pc = "done", !["c1"].day = today,
                   !["c1"].result =
                      CreateQuery(a.cls, cfg, prompt_template[a.cls],
                                  a.profile, a.context, a.query, today)]
  /\ UNCHANGED <<CONFIG, prompt_template, today, srvVars, pageVars>>

NextCQ == CallCreateQuery \/ Tick

SpecCQ == InitCQ /\ [][NextCQ]_vars

\* ------------------------------------------------------- claims C1 and C2
TheCall == call["c1"]

AllWhitespace(s) == \A i \in 1..Len(s) : s[i] \in {" ", "\n"}

\* None, "" or whitespace only
BlankInput(q) == q.t = "none" \/ (q.t = "str" /\ AllWhitespace(q.s))

NoneOrEmpty(v) == v = None \/ v = Str(<< >>)

\* index of the first tok in s, 0 when there is none
RECURSIVE IndexFrom(_, _, _)
IndexFrom(tok, s, i) ==
  IF i > Len(s) THEN 0 ELSE IF s[i] = tok THEN i ELSE IndexFrom(tok, s, i + 1)

Index(tok, s) == IndexFrom(tok, s, 1)

\* the tokens between the first `open` and the first `close` after it
Between(s, open, close) ==
  LET i == Index(open, s)
      j == IndexFrom(close, s, i + 1)
  IN SubSeq(s, i + 1, j - 1)

ContextTag(c) == IF c \in BookModules THEN "BOOK_DATA" ELSE "CONTEXT"

\* C1: every create_query (both BookQueryConstructor copies and the financial
\* one) raises ValueError("Query cannot be empty") for a query that is None,
\* empty or whitespace only and returns no prompt; a profile or context that
\* is None or "" is accepted and its section of the prompt is empty.
C1_BlankQueryRejected ==
  TheCall.pc = "done" =>
    /\ BlankInput(TheCall.query) =>
         TheCall.result = Raise("ValueError", "Query cannot be empty")
    /\ (~BlankInput(TheCall.query) /\ NoneOrEmpty(TheCall.profile)
          /\ TheCall.context.t # "other") =>
         /\ TheCall.result.kind = "return"
         /\ Between(TheCall.result.value, "<PROFILE>", "</PROFILE>") = <<"\n", "\n">>
    /\ (~BlankInput(TheCall.query) /\ NoneOrEmpty(TheCall.context)
          /\ TheCall.profile.t # "other") =>
         /\ TheCall.result.kind = "return"
         /\ Between(TheCall.result.value, "<" \o ContextTag(TheCall.cls) \o ">",
                    "</" \o ContextTag(TheCall.cls) \o ">") = <<"\n", "\n">>

\* a whitespace-only query was rejected by the financial constructor
C1_Witness ==
  /\ TheCall.pc = "done"
  /\ TheCall.cls = "financial"
  /\ TheCall.query = Str(<<" ">>)
  /\ TheCall.profile = None
  /\ TheCall.result.kind = "raise"

BookTags == <<"<SYSTEM_PROMPT>", "<PROFILE>", "<BOOK_DATA>", "<USER_QUERY>">>

\* the case C2 is about: a book constructor, a non-blank query, str or None
C2_Case ==
  /\ TheCall.pc = "done"
  /\ TheCall.cls \in BookModules
  /\ ~BlankInput(TheCall.query)
  /\ TheCall.profile.t # "other"
  /\ TheCall.context.t # "other"

OnceEachInOrder(v) ==
  /\ \A i \in 1..Len(BookTags) : Count(BookTags[i], v) = 1
  /\ \A i \in 1..(Len(BookTags) - 1) : Index(BookTags[i], v) < Index(BookTags[i + 1], v)

SectionsHoldInputs(v) ==
  /\ Between(v, "<PROFILE>", "</PROFILE>")
       = <<"\n">> \o (IF TheCall.profile = None THEN << >> ELSE TheCall.profile.s) \o <<"\n">>
  /\ Between(v, "<BOOK_DATA>", "</BOOK_DATA>")
       = <<"\n">> \o (IF NoneOrEmpty(TheCall.context) THEN << >>
                      ELSE TheCall.context.s \o <<"\n", "\n">>) \o <<"\n">>
  /\ Between(v, "<USER_QUERY>", "</USER_QUERY>") = <<"\n">> \o TheCall.query.s \o <<"\n">>

\* the template written out, filled with the inputs
ExpectedPrompt(m, profile, context, query, day) ==
  <<"<SYSTEM_PROMPT>", "\n">>
  \o ConfigJson(InitialConfig(m) \o << <<"CURRENT_DATE", Str(CurrentDateIso(day))>> >>)
  \o <<"\n", "</SYSTEM_PROMPT>", "\n", "\n", "<DATA>", "\n", "<PROFILE>", "\n">>
  \o (IF profile = None THEN << >> ELSE profile.s)
  \o <<"\n", "</PROFILE>", "\n", "\n", "<BOOK_DATA>", "\n">>
  \o (IF NoneOrEmpty(context) THEN << >> ELSE context.s \o <<"\n", "\n">>)
  \o <<"\n", "</BOOK_DATA>", "\n", "\n", "<USER_QUERY>", "\n">>
  \o query.s
  \o <<"\n", "</USER_QUERY>", "\n", "</DATA>">>

HoldsNoTag(v) == v = None \/ \A i \in 1..Len(v.s) : v.s[i] \notin Range(BookTags)

\* C2 as stated: for every non-blank query and str-or-None profile and
\* context the four sections appear once each, in order, holding the inputs.
C2_Original ==
  C2_Case =>
    /\ TheCall.result.kind = "return"
    /\ OnceEachInOrder(TheCall.result.value)
    /\ SectionsHoldInputs(TheCall.result.value)

\* C2 (amended): the result is exactly the template filled in with profile,
\* context followed by two newlines (nothing for None or ""), query and the
\* dated CONFIG, so it depends on these and the date alone; the four sections
\* appear once each, in order, holding the inputs unchanged, whenever
\* profile, context and query hold no section tag themselves.
C2_TemplateFilledIn ==
  C2_Case =>
    /\ TheCall.result =
         Return(ExpectedPrompt(TheCall.cls, TheCall.profile, TheCall.context,
                               TheCall.query, TheCall.day))
    /\ (HoldsNoTag(TheCall.profile) /\ HoldsNoTag(TheCall.context)
          /\ HoldsNoTag(TheCall.query)) =>
         /\ OnceEachInOrder(TheCall.result.value)
         /\ SectionsHoldInputs(TheCall.result.value)

\* a prompt was built from a profile, a context and a query
C2_Witness ==
  /\ C2_Case
  /\ TheCall.cls = "book_agent"
  /\ TheCall.profile = Str(<<"a">>)
  /\ TheCall.context = Str(<<"a", " ">>)
  /\ TheCall.query = Str(<<" ", "a">>)
  /\ TheCall.result.kind = "return"

\* ------------------------------- create_query step by step, run concurrently
\* The server's one BookQueryConstructor (book_server.query_constructor) is
\* called by every endpoint invocation; each caller has its own locals.
ServerModule == "book_agent"

CallProfiles == {None, Str(<<"a">>)}
CallQueries == {Str(<<" ">>), Str(<<"a">>), Str(<<"b">>)}

InitCC ==
  /\ InitModules
  /\ InitServer
  /\ call = [c \in Callers |-> IdleCall]

\* entry and the guards (lines 435-445)
CQBegin(c) ==
  /\ call[c].pc = "idle"
  /\ \E p \in CallProfiles, x \in CallProfiles, q \in CallQueries :
       LET a == NewCall(ServerModule, p, x, q)
       IN call' = [call EXCEPT ![c] =
            IF QueryIsBlank(q)
            THEN [a EXCEPT !.pc = "done", !.result = Raise("ValueError", "Query cannot be empty")]
            ELSE IF p.t = "other"
            THEN [a EXCEPT !.pc = "done",
                           !.result = Raise("ValueError", "Profile must be a string or None")]
            ELSE IF x.t = "other"
            THEN [a EXCEPT !.pc = "done",
                           !.result = Raise("ValueError", "Context must be a string or None")]
            ELSE [a EXCEPT !.pc = "guarded"]]
  /\ UNCHANGED <<CONFIG, prompt_template, today, srvVars, pageVars>>

\* current_config = CONFIG.copy()
CQCopy(c) ==
  /\ call[c].pc = "guarded"
  /\ call' = [call EXCEPT ![c].pc = "copied", ![c].current_config = CONFIG[call[c].cls]]
  /\ UNCHANGED <<CONFIG, prompt_template, today, srvVars, pageVars>>

\* the date written into CONFIG itself instead of the copy
CQSetDate_Shared(c) ==
  /\ call[c].pc = "copied"
  /\ call' = [call EXCEPT ![c].pc = "dated", ![c].day = today,
                ![c].current_config = CurrentConfig(call[c].current_config, today)]
  /\ CONFIG' = [CONFIG EXCEPT ![call[c].cls] = CurrentConfig(CONFIG[call[c].cls], today)]
  /\ UNCHANGED <<prompt_template, today, srvVars, pageVars>>

\* current_config["CURRENT_DATE"] = _current_date_iso()
CQSetDate(c) ==
  /\ call[c].pc = "copied"
  /\ call' = [call EXCEPT ![c].pc = "dated", ![c].day = today,
                ![c].current_config = CurrentConfig(call[c].current_config, today)]
  /\ UNCHANGED <<CONFIG, prompt_template, today, srvVars, pageVars>>

\* config_json = json.dumps(current_config, indent=2)
CQDumps(c) ==
  /\ call[c].pc = "dated"
  /\ call' = [call EXCEPT ![c].pc = "dumped",
                ![c].config_json = ConfigJson(call[c].current_config)]
  /\ UNCHANGED <<CONFIG, prompt_template, today, srvVars, pageVars>>

\* result = self.prompt_template.format(...); return result
CQFormat(c) ==
  /\ call[c].pc = "dumped"
  /\ LET a == call[c]
         r == Format(prompt_template[a.cls],
                [k \in {"{config_json}", "{profile}", "{context_block}", "{query}"} |->
                   CASE k = "{config_json}" -> Str(a.config_json)
                     [] k = "{profile}" -> ProfileStr(a.profile)
                     [] k = "{context_block}" -> ContextBlock(a.context)
                     [] OTHER -> a.query])
     IN call' = [call EXCEPT ![c].pc = "done",
                   ![c].result =
                      IF r.ok THEN Return(r.value)
                      ELSE Raise("RuntimeError",
                                 "Failed to format prompt due to missing key: " \o r.key)]
  /\ UNCHANGED <<CONFIG, prompt_template, today, srvVars, pageVars>>

\* the caller takes the result; its locals are gone
CQLeave(c) ==
  /\ call[c].pc = "done"
  /\ call' = [call EXCEPT ![c] = IdleCall]
  /\ UNCHANGED <<CONFIG, prompt_template, today, srvVars, pageVars>>

NextCC ==
  \/ \E c \in Callers :
       CQBegin(c) \/ CQCopy(c) \/ CQSetDate(c) \/ CQDumps(c) \/ CQFormat(c) \/ CQLeave(c)
  \/ Tick

SpecCC == InitCC /\ [][NextCC]_vars

\* C7: under any interleaving of create_query calls the module-level CONFIG
\* and the constructor's prompt_template stay as they were at import, and a
\* call returns what it returns when run alone on the date it read.
C7_NoSharedMutableState ==
  /\ CONFIG = [m \in BookModules |-> InitialConfig(m)]
  /\ prompt_template = [c \in Classes |-> InitialTemplate(c)]
  /\ \A c \in Callers :
       call[c].pc = "done" =>
         call[c].result =
           CreateQuery(call[c].cls, InitialConfig(call[c].cls), InitialTemplate(call[c].cls),
                       call[c].profile, call[c].context, call[c].query, call[c].day)

\* one call returned a prompt dated day 1 while another, dated day 2, is
\* still between its copy of CONFIG and its format
C7_Witness ==
  /\ call["c1"].pc = "done"
  /\ call["c1"].result.kind = "return"
  /\ call["c1"].day = 1
  /\ call["c2"].pc = "dated"
  /\ call["c2"].day = 2

\* query_constructor.create_query(profile=profile_str, context=context_str,
\* query=query) on the strings made from a search answer
BuildPrompt(query, a) ==
  CreateQuery(ServerModule, CONFIG[ServerModule], prompt_template[ServerModule],
              Str(ProfileOf(a)), Str(ContextOf(a)), Str(query), today)

AsExc(cq) == IF cq.kind = "raise" THEN Exc(cq.exc, cq.msg) ELSE NoExc

\* the locals an endpoint holds once its prompt is built
WithPrompt(q, a, cq) ==
  [q EXCEPT !.found = [episodic_memory |-> a.episodic_memory,
                       profile_memory |-> a.profile_memory],
            !.profile_str = ProfileOf(a), !.context_str = ContextOf(a),
            !.formatted_query = cq.value]

\* the handler without its `except Exception`: the exception leaves it
Failed_Propagates(q, e) == [q EXCEPT !.pc = "done", !.raised = e]

\* `except Exception as e: return {"status": "error", "message": str(e)}`
Failed(q, e) == [q EXCEPT !.pc = "done", !.raised = e, !.response = ErrorResponse(e.msg)]

\* POST /ai-query, lines 157-199: search the memory and build the prompt
AqSearch(r) ==
  /\ req[r].pc = "aq_search"
  /\ LET q == req[r]
         data == SearchData(SessionData(q.user_id, "session_" \o q.user_id),
                            q.query, 20, q.user_id, 30)
     IN \E a \in SearchAnswers(data) :
          LET cq == BuildPrompt(q.query, a)
              e == FirstExc(<<PostError(a), RaiseForStatus(a), JsonError(a), AsExc(cq)>>)
              sent == [q EXCEPT !.out = Append(q.out, data)]
          IN req' = [req EXCEPT ![r] =
                IF e # NoExc THEN Failed(sent, e)
                ELSE [WithPrompt(sent, a, cq) EXCEPT !.pc = "aq_llm"]]
  /\ UNCHANGED <<pageVars, cqVars, api_key, episodes, ui>>

\* a chat completion that never ends
LlmOutcomes_Hangs == {}

\* how the chat completion may end: a first choice with content, an error
\* that raises, a first choice whose content is None, or no choice at all
LlmOutcomes == {"content", "APIError", "no content", "no choices"}

\* generate_openai_response: the string it returns
AiResponse(has_key, outcome) ==
  IF ~has_key THEN <<"OpenAI API key not configured">>
  ELSE IF outcome = "content" THEN <<"AI answer">>
  ELSE IF outcome = "no content"
  THEN <<"Error generating AI response: ", "'NoneType' object is not subscriptable">>
  ELSE IF outcome = "no choices"
  THEN <<"Error generating AI response: ", "list index out of range">>
  ELSE <<"Error generating AI response: ", outcome>>

\* generate_openai_response without its `except Exception`
GenerateOpenaiResponse_NoExcept(key, outcome) ==
  IF Truthy(key) /\ outcome # "content"
  THEN [ran |-> TRUE, outcome |-> outcome, raised |-> Exc(outcome, outcome), value |-> None]
  ELSE [ran |-> TRUE, outcome |-> IF Truthy(key) THEN outcome ELSE "", raised |-> NoExc,
        value |-> Str(AiResponse(Truthy(key), outcome))]

\* generate_openai_response for the environment's key and the way the chat
\* completion ends: the outcome of the call it made, the exception that left
\* it and the value it returned
GenerateOpenaiResponse(key, outcome) ==
  [ran |-> TRUE, outcome |-> IF Truthy(key) THEN outcome ELSE "", raised |-> NoExc,
   value |-> Str(AiResponse(Truthy(key), outcome))]

\* the outbound calls after generate_openai_response
AfterLlm(q, has_key) ==
  IF has_key THEN Append(q.out, LlmCall(q.formatted_query, q.query)) ELSE q.out

\* POST /ai-query answering with the prompt's context left out
AqLlm_NoContext(r) ==
  /\ req[r].pc = "aq_llm"
  /\ \E o \in LlmOutcomes :
       LET g == GenerateOpenaiResponse(api_key, o)
           q == [req[r] EXCEPT !.out = AfterLlm(req[r], Truthy(api_key)), !.llm = g]
           ai == g.value.s
       IN req' = [req EXCEPT ![r] =
            IF g.raised # NoExc THEN Failed(q, g.raised)
            ELSE [q EXCEPT !.pc = "done", !.ai_response = ai,
                    !.response = [SuccessResponse EXCEPT
                                    !.ai_response = ai, !.response = ai,
                                    !.formatted_query = q.formatted_query,
                                    !.query = q.query]]]
  /\ UNCHANGED <<pageVars, cqVars, api_key, episodes, ui>>

\* POST /ai-query, lines 201-211: ask the LLM and answer
AqLlm(r) ==
  /\ req[r].pc = "aq_llm"
  /\ \E o \in LlmOutcomes :
       LET g == GenerateOpenaiResponse(api_key, o)
           q == [req[r] EXCEPT !.out = AfterLlm(req[r], Truthy(api_key)), !.llm = g]
           ai == g.value.s
       IN req' = [req EXCEPT ![r] =
            IF g.raised # NoExc THEN Failed(q, g.raised)
            ELSE [q EXCEPT !.pc = "done", !.ai_response = ai,
                    !.response = [SuccessResponse EXCEPT
                                    !.ai_response = ai, !.response = ai,
                                    !.context = q.context_str,
                                    !.formatted_query = q.formatted_query,
                                    !.query = q.query]]]
  /\ UNCHANGED <<pageVars, cqVars, api_key, episodes, ui>>

\* f"Backend returned {status}: {text}" and its two siblings
StatusMessage(what, a) == what \o ToString(a.status) \o ": ..."

\* GET /memory, lines 219-261: search the memory and build the prompt
GdSearch(r) ==
  /\ req[r].pc = "gd_search"
  /\ LET q == req[r]
         data == SearchData(SessionData(q.user_id, "session_" \o q.user_id),
                            q.query, 20, q.user_id, 1000)
     IN \E a \in SearchAnswers(data) :
          LET cq == BuildPrompt(q.query, a)
              e == FirstExc(<<JsonError(a), AsExc(cq)>>)
              sent == [q EXCEPT !.out = Append(q.out, data)]
          IN req' = [req EXCEPT ![r] =
                IF PostError(a) # NoExc THEN Failed(sent, PostError(a))
                ELSE IF a.status # 200
                THEN [sent EXCEPT !.pc = "done",
                        !.response = ErrorResponse(StatusMessage("Backend returned ", a))]
                ELSE IF e # NoExc THEN Failed(sent, e)
                ELSE [WithPrompt(sent, a, cq) EXCEPT !.pc = "gd_llm"]]
  /\ UNCHANGED <<pageVars, cqVars, api_key, episodes, ui>>

\* GET /memory, lines 263-275: ask the LLM and answer
GdLlm(r) ==
  /\ req[r].pc = "gd_llm"
  /\ \E o \in LlmOutcomes :
       LET g == GenerateOpenaiResponse(api_key, o)
           q == [req[r] EXCEPT !.out = AfterLlm(req[r], Truthy(api_key)), !.llm = g]
           ai == g.value.s
       IN req' = [req EXCEPT ![r] =
            IF g.raised # NoExc THEN Failed(q, g.raised)
            ELSE [q EXCEPT !.pc = "done", !.ai_response = ai,
                    !.response = [SuccessResponse EXCEPT
                                    !.ai_response = ai,
                                    !.formatted_query = q.formatted_query]]]
  /\ UNCHANGED <<pageVars, cqVars, api_key, episodes, ui>>

\* the store of POST /memory/store-and-search checked with raise_for_status
SsStore_RaiseForStatus(r) ==
  /\ req[r].pc = "ss_store"
  /\ LET q == req[r]
         data == EpisodeData(SessionData(q.user_id, "session_" \o q.user_id),
                             q.user_id, q.query, FALSE, None, 1000)
     IN \E s \in StoreAnswers :
          LET sent == [q EXCEPT !.out = Append(q.out, data), !.store_response = s.answer]
          IN /\ episodes' = IF s.stored THEN Append(episodes, Episode(r, data)) ELSE episodes
             /\ req' = [req EXCEPT ![r] =
                  IF PostError(s.answer) # NoExc THEN Failed(sent, PostError(s.answer))
                  ELSE IF RaiseForStatus(s.answer) # NoExc
                  THEN Failed(sent, RaiseForStatus(s.answer))
                  ELSE [sent EXCEPT !.pc = "ss_search"]]
  /\ UNCHANGED <<pageVars, cqVars, api_key, ui>>

\* POST /memory/store-and-search, lines 282-304: store the episode
SsStore(r) ==
  /\ req[r].pc = "ss_store"
  /\ LET q == req[r]
         data == EpisodeData(SessionData(q.user_id, "session_" \o q.user_id),
                             q.user_id, q.query, FALSE, None, 1000)
     IN \E s \in StoreAnswers :
          LET sent == [q EXCEPT !.out = Append(q.out, data), !.store_response = s.answer]
          IN /\ episodes' = IF s.stored THEN Append(episodes, Episode(r, data)) ELSE episodes
             /\ req' = [req EXCEPT ![r] =
                  IF PostError(s.answer) # NoExc THEN Failed(sent, PostError(s.answer))
                  ELSE IF s.answer.status # 200
                  THEN [sent EXCEPT !.pc = "done",
                          !.response =
                             ErrorResponse(StatusMessage("Store failed with ", s.answer))]
                  ELSE [sent EXCEPT !.pc = "ss_search"]]
  /\ UNCHANGED <<pageVars, cqVars, api_key, ui>>

\* f"{profile_memory}" and f"{episodic_memory}": the repr of the lists
ProfileRepr(a) ==
  <<"[">> \o Join(<<", ">>, [i \in 1..Len(a.profile_memory) |->
                               <<"'", a.profile_memory[i], "'">>]) \o <<"]">>
EpisodicRepr(a) ==
  <<"[">> \o Join(<<", ">>, [i \in 1..Len(a.episodic_memory) |->
                               MemoryStr(a.episodic_memory[i])]) \o <<"]">>

\* the string POST /memory/store-and-search returns, lines 346-353
IngestText(a, formatted_response) ==
  (IF a.profile_memory # << >> /\ a.episodic_memory # << >>
   THEN <<"Profile: ">> \o ProfileRepr(a) \o <<"\n", "\n", "Context: ">> \o EpisodicRepr(a)
   ELSE IF a.profile_memory # << >> THEN <<"Profile: ">> \o ProfileRepr(a)
   ELSE IF a.episodic_memory # << >> THEN <<"Context: ">> \o EpisodicRepr(a)
   ELSE <<"Message ingested successfully. No relevant context found yet.">>)
  \o <<"\n", "\n", "Formatted Response:", "\n">> \o formatted_response

\* POST /memory/store-and-search, lines 306-356: search and build the text
SsSearch(r) ==
  /\ req[r].pc = "ss_search"
  /\ LET q == req[r]
         data == SearchData(SessionData(q.user_id, "session_" \o q.user_id),
                            q.query, 5, q.user_id, 1000)
     IN \E a \in SearchAnswers(data) :
          LET cq == BuildPrompt(q.query, a)
              e == FirstExc(<<JsonError(a), AsExc(cq)>>)
              sent == [q EXCEPT !.out = Append(q.out, data), !.search_response = a]
          IN req' = [req EXCEPT ![r] =
                IF PostError(a) # NoExc THEN Failed(sent, PostError(a))
                ELSE IF a.status # 200
                THEN [sent EXCEPT !.pc = "done",
                        !.response = ErrorResponse(StatusMessage("Search failed with ", a))]
                ELSE IF e # NoExc THEN Failed(sent, e)
                ELSE [WithPrompt(sent, a, cq) EXCEPT !.pc = "done",
                        !.response = TextResponse(IngestText(a, cq.value))]]
  /\ UNCHANGED <<pageVars, cqVars, api_key, episodes, ui>>

Next ==
  \E r \in ReqIds :
    \/ Receive(r)
    \/ SdCheck(r) \/ SdStore(r)
    \/ AqSearch(r) \/ AqLlm(r)
    \/ GdSearch(r) \/ GdLlm(r)
    \/ SsStore(r) \/ SsSearch(r)

\* The backend outlives the server: it starts empty, or with one episode of
\* each user stored by an earlier run (rid 0).
Earlier(u) ==
  [rid |-> 0, shape |-> "dict", producer |-> u, content |-> <<"a">>,
   book_message_id |-> Str(<<"m1">>)]

InitialEpisodes == {<< >>, <<Earlier("u1"), Earlier("u2")>>}

Init ==
  /\ InitModules
  /\ call = [c \in Callers |-> IdleCall]
  /\ api_key \in ApiKeys
  /\ episodes \in InitialEpisodes
  /\ req = [r \in ReqIds |-> IdleReq]
  /\ ui = [r \in ReqIds |-> NoCall]
  /\ NoPage

Spec == Init /\ [][Next]_vars

\* ------------------------------------- generate_openai_response on its own
\* the prompts handed to generate_openai_response
LlmPrompts == SeqsUpTo(TextAlphabet, MaxLen)

\* OPENAI_API_KEY: unset, empty or a key
LlmKeys == ApiKeys \cup {Str(<< >>)}

NextLlm == \E r \in ReqIds : AqLlm(r) \/ GdLlm(r)

\* POST /ai-query and GET /memory are about to call generate_openai_response
InitLlm ==
  /\ InitModules
  /\ call = [c \in Callers |-> IdleCall]
  /\ api_key \in LlmKeys
  /\ episodes = << >>
  /\ \E f1 \in LlmPrompts, f2 \in LlmPrompts :
       req = [r \in ReqIds |->
                IF r = 1
                THEN [Started("process_ai_query", "u1", <<"a">>, None) EXCEPT
                        !.pc = "aq_llm", !.formatted_query = f1]
                ELSE [Started("get_data", "u1", <<"a">>, None) EXCEPT
                        !.pc = "gd_llm", !.formatted_query = f2]]
  /\ ui = [r \in ReqIds |-> NoCall]
  /\ NoPage

SpecLlm == InitLlm /\ [][NextLlm]_vars

\* ------------------------------------------------- POST /memory on its own
\* an episode that another client of the backend stored for u: a memory of
\* the given shape that names the book_message_id m1
Foreign(u, shape) ==
  [rid |-> 0, shape |-> shape, producer |-> u, content |-> <<"a">>,
   book_message_id |-> Str(<<"m1">>)]

\* what the backend may hold when the server starts
StoreEpisodes ==
  InitialEpisodes \cup {<<Foreign("u1", "flat")>>, <<Foreign("u1", "str")>>,
                        <<Foreign("u1", "str"), Earlier("u1")>>}

NextStore ==
  \E r \in ReqIds : ReceiveAt(r, {"store_data"}) \/ SdCheck(r) \/ SdStore(r)

InitStore ==
  /\ InitModules
  /\ call = [c \in Callers |-> IdleCall]
  /\ api_key = None
  /\ episodes \in StoreEpisodes
  /\ req = [r \in ReqIds |-> IdleReq]
  /\ ui = [r \in ReqIds |-> NoCall]
  /\ NoPage

SpecStore == InitStore /\ [][NextStore]_vars

\* ------------------------------------------------------------ the frontend
HelperFns == {"store_book_data", "get_book_data", "get_ai_book_query"}

\* the endpoint a helper calls
EndpointOf(fn) ==
  CASE fn = "store_book_data" -> "store_and_search_data"
    [] fn = "get_book_data" -> "get_data"
    [] OTHER -> "process_ai_query"

\* the messages of the three except clauses of a helper
TimeoutMessage(fn) ==
  IF fn = "get_ai_book_query" THEN "AI request timed out. Please try again."
  ELSE "Request timed out. Please try again."
ConnectionMessage(fn) ==
  IF fn = "get_ai_book_query"
  THEN "Cannot connect to AI service. Please check if the backend is running."
  ELSE "Cannot connect to server. Please check if the backend is running."
OtherMessage(fn, e) ==
  (CASE fn = "store_book_data" -> "Error storing book data: "
     [] fn = "get_book_data" -> "Error retrieving book data: "
     [] OTHER -> "Error processing AI query: ") \o e.msg

ErrorResult(msg) == [kind |-> "dict", status |-> "error", message |-> msg, data |-> NoResponse]

\* what a helper returns for a 2xx reply: store_book_data wraps the body text
\* in a success, the other two return the decoded body
ReplyResult(fn, response) ==
  IF fn = "store_book_data"
  THEN [kind |-> "dict", status |-> "success", message |-> "", data |-> response]
  ELSE [kind |-> response.kind, status |-> response.status,
        message |-> response.message, data |-> response]

\* what the page shows for a helper's result: Log Book shows a success or an
\* error box, Ask AI the answer or an error; get_book_data has no page
Shown(fn, result) ==
  CASE fn = "store_book_data" ->
         IF result.status = "success" THEN "Book logged successfully!"
         ELSE "Error: " \o result.message
    [] fn = "get_ai_book_query" ->
         IF result.status = "success" THEN "AI Response"
         ELSE "Error: " \o result.message
    [] OTHER -> ""

Returned(c, ended, result) ==
  [c EXCEPT !.pc = "returned", !.ended = ended, !.result = result,
            !.shown = Shown(c.fn, result),
            !.answer = IF c.fn = "get_ai_book_query" /\ result.status = "success"
                       THEN result.data.ai_response ELSE << >>]

\* the query string the Log Book page builds from its fields (lines 211-232)
FormQuery(title, author) ==
  <<"Book: ">> \o title \o <<". ", "Author: ">> \o author \o <<".">>

Titles == {<< >>, <<"a">>}

Calling(fn) == [NoCall EXCEPT !.fn = fn, !.pc = "waiting", !.timeout = 30]

\* Log Book is pressed: without a title the page only shows an error, else
\* store_book_data posts the query to /memory/store-and-search
LogBook(r) ==
  /\ \E u \in Users, title \in Titles :
       /\ MayStart(r, u)
       /\ IF title = << >>
          THEN /\ req' = [req EXCEPT ![r].pc = "unsent", ![r].user_id = u]
               /\ ui' = [ui EXCEPT ![r].pc = "returned",
                           ![r].shown = "Please fill in at least Book Title and Author fields."]
          ELSE /\ req' = [req EXCEPT ![r] = Started("store_and_search_data", u,
                                                    FormQuery(title, <<"b">>), None)]
               /\ ui' = [ui EXCEPT ![r] = Calling("store_book_data")]
  /\ UNCHANGED <<pageVars, cqVars, api_key, episodes>>

\* Ask AI is pressed with a non-empty question: get_ai_book_query posts it
AskAI(r) ==
  /\ \E u \in Users, q \in Queries :
       /\ MayStart(r, u)
       /\ req' = [req EXCEPT ![r] = Started("process_ai_query", u, q, None)]
       /\ ui' = [ui EXCEPT ![r] = Calling("get_ai_book_query")]
  /\ UNCHANGED <<pageVars, cqVars, api_key, episodes>>

\* get_book_data is called
GetBookData(r) ==
  /\ \E u \in Users, q \in Queries :
       /\ MayStart(r, u)
       /\ req' = [req EXCEPT ![r] = Started("get_data", u, q, None)]
       /\ ui' = [ui EXCEPT ![r] = Calling("get_book_data")]
  /\ UNCHANGED <<pageVars, cqVars, api_key, episodes>>

\* how a call may fail before the endpoint runs: the server cannot be
\* reached, or the reply is an error status (a 4xx or 5xx from the web server)
Refusals == {"ConnectionError", "HTTPError"}

RefusedResult(fn, how) ==
  IF how = "ConnectionError" THEN ErrorResult(ConnectionMessage(fn))
  ELSE ErrorResult(OtherMessage(fn, Exc("HTTPError", "502 Server Error")))

\* a helper is called and the call fails without reaching the endpoint
Refused(r) ==
  /\ \E fn \in HelperFns, u \in Users, how \in Refusals :
       /\ MayStart(r, u)
       /\ req' = [req EXCEPT ![r].pc = "unsent", ![r].user_id = u]
       /\ ui' = [ui EXCEPT ![r] = Returned(Calling(fn), how, RefusedResult(fn, how))]
  /\ UNCHANGED <<pageVars, cqVars, api_key, episodes>>

\* the helper without its `except requests.exceptions.Timeout`
TimedOut_Unhandled(r) ==
  /\ ui[r].pc = "waiting"
  /\ ui' = [ui EXCEPT ![r].pc = "returned", ![r].ended = "Timeout",
              ![r].raised = Exc("Timeout", "Read timed out.")]
  /\ UNCHANGED <<pageVars, cqVars, api_key, episodes, req>>

\* the helper's 30 seconds pass before the reply; the server goes on
TimedOut(r) ==
  /\ ui[r].pc = "waiting"
  /\ ui' = [ui EXCEPT ![r] =
       Returned(ui[r], "Timeout", ErrorResult(TimeoutMessage(ui[r].fn)))]
  /\ UNCHANGED <<pageVars, cqVars, api_key, episodes, req>>

\* the endpoint returned: FastAPI replies 200 with its value as the body
Replied(r) ==
  /\ ui[r].pc = "waiting"
  /\ req[r].pc = "done"
  /\ ui' = [ui EXCEPT ![r] =
       Returned(ui[r], "reply", ReplyResult(ui[r].fn, req[r].response))]
  /\ UNCHANGED <<pageVars, cqVars, api_key, episodes, req>>

\* another client posts to /memory
PostMemory(r) == ReceiveAt(r, {"store_data"})

\* one step of the endpoint invocation r
ServerStep(r) ==
  \/ SdCheck(r) \/ SdStore(r)
  \/ AqSearch(r) \/ AqLlm(r)
  \/ GdSearch(r) \/ GdLlm(r)
  \/ SsStore(r) \/ SsSearch(r)

\* the return of the helper call r
HelperReturn(r) == TimedOut(r) \/ Replied(r)

NextUI ==
  \E r \in ReqIds :
    \/ LogBook(r) \/ AskAI(r) \/ GetBookData(r) \/ Refused(r) \/ PostMemory(r)
    \/ ServerStep(r)
    \/ HelperReturn(r)

\* the frontend and the server start against an empty backend
InitUI ==
  /\ InitModules
  /\ call = [c \in Callers |-> IdleCall]
  /\ api_key \in ApiKeys
  /\ InitBackend

SpecUI == InitUI /\ [][NextUI]_vars

\* One invocation at a time: the page calls a helper, or another client posts
\* to /memory, against a backend that may hold earlier episodes.
NextSolo ==
  \/ LogBook(1) \/ AskAI(1) \/ GetBookData(1) \/ Refused(1) \/ PostMemory(1)
  \/ ServerStep(1)
  \/ HelperReturn(1)

SpecSolo == Init /\ [][NextSolo]_vars

\* every outbound call answers or raises, and the helper's call returns
FairSpecSolo == SpecSolo /\ WF_vars(ServerStep(1)) /\ WF_vars(HelperReturn(1))

\* ------------------------------------------------- the script of a page
\* seconds that may pass between two runs of the script
ElapsedSteps == {0, 10, 15, 16}

Pages == {"Log Book", "AI Assistant"}

\* two of the six quick-action questions
QuickQueries ==
  {Str(<<"Show me all my books with their details">>),
   Str(<<"Show me my reading statistics and patterns">>)}

\* what the user leaves in the question box: nothing or a question
Typed == {Str(<< >>), Str(<<"a">>)}

\* how the sidebar's test request may end
ProbeOutcomes == {"ok", "bad status", "exception"}

\* the sidebar of book_agent/book_frontend.py: a request on every run
DirectStatus(outcome) ==
  CASE outcome = "ok" -> "connected"
    [] outcome = "bad status" -> "warning"
    [] OTHER -> "offline"

\* the test of examples/book_agent/book_frontend.py: store_book_data returns
\* an error dict where the request fails, so `except:` is never entered
TestedStatus(outcome) == IF outcome = "ok" THEN "connected" ELSE "warning"

\* should_test_connection without the age of the stored status
ShouldTestConnection_NoExpiry(ss, current_time) ==
  \/ ss.connection_status = None
  \/ ss.connection_last_checked = NeverChecked

\* should_test_connection
ShouldTestConnection(ss, current_time) ==
  \/ ss.connection_status = None
  \/ ss.connection_last_checked = NeverChecked
  \/ current_time - ss.connection_last_checked > CacheSeconds

\* the box shown for a stored status
CachedBox(status) ==
  IF status = Str(<<"connected">>) THEN "connected"
  ELSE IF status = Str(<<"warning">>) THEN "warning"
  ELSE "offline"

\* the System Status block of the sidebar at time t
Sidebar(fe, ss, t, outcome) ==
  IF fe = "book_agent"
  THEN [ss |-> ss, probed |-> TRUE, box |-> DirectStatus(outcome)]
  ELSE IF ShouldTestConnection(ss, t)
  THEN [ss |-> [ss EXCEPT !.connection_status = Str(<<TestedStatus(outcome)>>),
                          !.connection_last_checked = t],
        probed |-> TRUE, box |-> TestedStatus(outcome)]
  ELSE [ss |-> ss, probed |-> FALSE, box |-> CachedBox(ss.connection_status)]

\* the question box: filled with quick_query where that is set
Prefill(ss) == IF Truthy(ss.quick_query) THEN ss.quick_query ELSE None

\* the script starts: time has passed, the sidebar is drawn
Begin(d, page, outcome) ==
  LET sb == Sidebar(frontend, session_state, now + d, outcome)
  IN [ss |-> sb.ss,
      run |-> [NoRun EXCEPT !.page = page, !.probed = sb.probed, !.sidebar = sb.box]]

\* the rest of the AI Assistant page with no quick action pressed
WithTextArea(b) == [b.run EXCEPT !.text_area = TRUE, !.prefill = Prefill(b.ss)]

MayRun(d) == now + d <= MaxTime /\ ~run.rerun

\* the user opens or switches to a page, pressing nothing
Visit ==
  /\ \E d \in ElapsedSteps, page \in Pages, o \in ProbeOutcomes :
       /\ MayRun(d)
       /\ now' = now + d
       /\ LET b == Begin(d, page, o)
          IN /\ session_state' = b.ss
             /\ run' = IF page = "AI Assistant" THEN WithTextArea(b) ELSE b.run
  /\ UNCHANGED <<cqVars, srvVars, frontend>>

\* a quick action is pressed: quick_query is set and st.rerun() ends the run
PressQuick ==
  /\ \E d \in ElapsedSteps, o \in ProbeOutcomes, q \in QuickQueries :
       /\ MayRun(d)
       /\ run.page = "AI Assistant"
       /\ now' = now + d
       /\ LET b == Begin(d, "AI Assistant", o)
          IN /\ session_state' = [b.ss EXCEPT !.quick_query = q]
             /\ run' = [b.run EXCEPT !.pressed = "quick", !.rerun = TRUE]
  /\ UNCHANGED <<cqVars, srvVars, frontend>>

\* the run that st.rerun() asked for
Rerun ==
  /\ run.rerun
  /\ \E o \in ProbeOutcomes :
       LET b == Begin(0, run.page, o)
       IN /\ session_state' = b.ss
          /\ run' = WithTextArea(b)
  /\ UNCHANGED <<cqVars, srvVars, frontend, now>>

\* Ask AI is pressed: an empty box is a warning, else the helper is called and
\* a success clears quick_query
PressAskAI ==
  /\ \E d \in ElapsedSteps, o \in ProbeOutcomes, typed \in Typed,
        status \in {"success", "error"} :
       /\ MayRun(d)
       /\ run.page = "AI Assistant"
       /\ now' = now + d
       /\ LET b == Begin(d, "AI Assistant", o)
              shown == WithTextArea(b)
              ai_query == IF shown.prefill # None THEN shown.prefill ELSE typed
          IN IF ~Truthy(ai_query)
             THEN /\ session_state' = b.ss
                  /\ run' = [shown EXCEPT !.pressed = "Ask AI", !.ai_query = ai_query]
             ELSE /\ session_state' =
                       IF status = "success" THEN [b.ss EXCEPT !.quick_query = None]
                       ELSE b.ss
                  /\ run' = [shown EXCEPT !.pressed = "Ask AI", !.ai_query = ai_query,
                                          !.status = status]
  /\ UNCHANGED <<cqVars, srvVars, frontend>>

NextSession == Visit \/ PressQuick \/ Rerun \/ PressAskAI

\* a browser session opens on either frontend; the server is not followed
InitSession ==
  /\ InitModules
  /\ call = [c \in Callers |-> IdleCall]
  /\ api_key = None
  /\ episodes = << >>
  /\ req = [r \in ReqIds |-> IdleReq]
  /\ ui = [r \in ReqIds |-> NoCall]
  /\ frontend \in Frontends
  /\ session_state = NoSessionState
  /\ now = 0
  /\ run = NoRun

SpecSession == InitSession /\ [][NextSession]_vars

\* ------------------------------------------------------ claims C3, C5, C6
Finished(r) == req[r].pc = "done"

Calls(r, kind) == {i \in 1..Len(req[r].out) : req[r].out[i].kind = kind}

\* C3 as stated: no endpoint lets an exception out, and whenever a backend
\* HTTP call, JSON decoding or query construction raised during the request
\* (the duplicate check's search included) the endpoint returns
\* {"status": "error", "message": str(e)}.
C3_Original ==
  \A r \in ReqIds :
    Finished(r) =>
      /\ req[r].response.kind # "none"
      /\ (req[r].raised # NoExc \/ req[r].processed = "check failed") =>
           /\ req[r].response.kind = "dict"
           /\ req[r].response.status = "error"

\* C3 (amended): no endpoint lets an exception out; whenever a backend HTTP
\* call, JSON decoding or query construction raises in the endpoint's own
\* body it returns {"status": "error", "message": str(e)}; an exception inside
\* the duplicate check of POST /memory is caught by
\* is_book_message_processed, counts as "not processed", and the endpoint
\* goes on to send the store request.
C3_ExceptionsBecomeErrorValues ==
  \A r \in ReqIds :
    Finished(r) =>
      /\ req[r].response.kind # "none"
      /\ req[r].raised # NoExc => req[r].response = ErrorResponse(req[r].raised.msg)
      /\ req[r].processed = "check failed" =>
           /\ Len(req[r].out) = 2
           /\ req[r].out[1].kind = "search"
           /\ req[r].out[2].kind = "store"
           /\ req[r].raised = NoExc => req[r].response.status = "success"

\* POST /ai-query answered with an error for a whitespace-only query after a
\* search that succeeded: the ValueError of create_query became the message
C3_Witness ==
  \E r \in ReqIds :
    /\ Finished(r)
    /\ req[r].endpoint = "process_ai_query"
    /\ req[r].raised = Exc("ValueError", "Query cannot be empty")
    /\ req[r].response = ErrorResponse("Query cannot be empty")

Confined(r, d) ==
  /\ d.session.user_id = <<req[r].user_id>>
  /\ d.kind = "store" => d.producer = req[r].user_id
  /\ d.kind = "search" => d.filter = req[r].user_id

\* C5 as stated: the episode_content of every store request and the query of
\* every search request sent for an endpoint request equal its query, and the
\* user_id sent is the request's.
C5_Original ==
  \A r \in ReqIds :
    \A i \in Calls(r, "store") \cup Calls(r, "search") :
      /\ req[r].out[i].text = req[r].query
      /\ Confined(r, req[r].out[i])

\* C5 (amended): the episode_content of every store request equals the
\* request's query, and so does the query of every search request except the
\* duplicate check of POST /memory, whose query is "book_message_id <id>";
\* the user_id sent is always the request's.
C5_VerbatimPassThrough ==
  \A r \in ReqIds :
    \A i \in Calls(r, "store") \cup Calls(r, "search") :
      LET d == req[r].out[i]
      IN /\ Confined(r, d)
         /\ IF req[r].endpoint = "store_data" /\ d.kind = "search"
            THEN d.text = <<"book_message_id", " ">> \o req[r].book_message_id.s
            ELSE d.text = req[r].query

\* a whitespace-only text was stored and then searched for user u2
C5_Witness ==
  \E r \in ReqIds :
    /\ Finished(r)
    /\ req[r].endpoint = "store_and_search_data"
    /\ req[r].user_id = "u2"
    /\ req[r].query = <<" ">>
    /\ Len(req[r].out) = 2

\* C6: in POST /ai-query and GET /memory the memory search comes first, then
\* the prompt, then the LLM: at most one LLM call per request, sent after the
\* request's one search with the prompt built from that search's result, and
\* none when the search failed or create_query raised.
C6_SearchPromptLlm ==
  \A r \in ReqIds :
    req[r].endpoint \in {"process_ai_query", "get_data"} =>
      /\ Cardinality(Calls(r, "llm")) <= 1
      /\ Cardinality(Calls(r, "search")) <= 1
      /\ \A i \in Calls(r, "llm") :
           /\ i = 2
           /\ req[r].out[1].kind = "search"
           /\ req[r].raised = NoExc
           /\ \A k \in 1..Len(req[r].found.episodic_memory) :
                req[r].found.episodic_memory[k].producer = req[r].user_id
           /\ req[r].out[i].text =
                CreateQuery(ServerModule, InitialConfig(ServerModule),
                            InitialTemplate(ServerModule),
                            Str(ProfileOf(req[r].found)), Str(ContextOf(req[r].found)),
                            Str(req[r].query), today).value
      /\ (Finished(r) /\ req[r].response.status = "error") => Calls(r, "llm") = {}

\* two overlapping requests of different users each called the LLM, one of
\* them with a prompt that holds an episode found by its search
C6_Witness ==
  /\ \A r \in ReqIds :
       /\ Finished(r)
       /\ req[r].endpoint \in {"process_ai_query", "get_data"}
       /\ Calls(r, "llm") = {2}
  /\ req[1].user_id # req[2].user_id
  /\ \E r \in ReqIds : req[r].found.episodic_memory # << >>

\* -------------------------------------------------- claims C4, C9 and C10
\* C4: store_book_data, get_book_data and get_ai_book_query never raise:
\* after a timeout, a connection error, a non-2xx status or a reply each
\* returns a dict with a status, and for every failure the status is "error"
\* with a message, so the page can always read result["status"].
C4_HelpersNeverRaise ==
  \A r \in ReqIds :
    (ui[r].pc = "returned" /\ ui[r].fn # "") =>
      /\ ui[r].raised = NoExc
      /\ ui[r].result.kind = "dict"
      /\ ui[r].result.status \in {"success", "error"}
      /\ ui[r].ended # "reply" =>
           /\ ui[r].result.status = "error"
           /\ ui[r].result.message # ""

\* get_ai_book_query timed out while its endpoint was still at work, and
\* get_book_data was refused
C4_Witness ==
  /\ ui[1].fn = "get_ai_book_query"
  /\ ui[1].pc = "returned"
  /\ ui[1].ended = "Timeout"
  /\ req[1].pc = "aq_llm"
  /\ ui[2].fn = "get_book_data"
  /\ ui[2].ended = "HTTPError"

\* every outbound call made so far was given a timeout by the code
AllCallsHaveTimeout ==
  \A r \in ReqIds :
    /\ \A i \in 1..Len(req[r].out) : req[r].out[i].timeout > 0
    /\ ui[r].pc # "none" /\ ui[r].fn # "" => ui[r].timeout > 0

Running(r) == req[r].pc \notin {"idle", "unsent", "done"}

\* every endpoint invocation and every helper call comes to its end
AllTerminate ==
  \A r \in ReqIds :
    /\ Running(r) ~> Finished(r)
    /\ (ui[r].pc = "waiting") ~> (ui[r].pc = "returned")

StoredBy(r) == \E i \in 1..Len(episodes) : episodes[i].rid = r

\* C10: Log Book shows "Book logged successfully!" only when the backend
\* stored the episode of that submission, and never for a store the book
\* server reported as failed.
C10_SuccessMeansStored ==
  \A r \in ReqIds :
    (ui[r].fn = "store_book_data" /\ ui[r].shown = "Book logged successfully!") =>
      /\ StoredBy(r)
      /\ req[r].response.status # "error"

\* ---------------------------------------------------------------- claim C8
Drawn == run.page # ""

\* C8 as stated: nothing stored during one interaction changes what a later
\* one displays: every run of the script shows a status that its own request
\* gave, and a question box that holds nothing from an earlier run.
C8_Original == Drawn => (run.probed /\ run.prefill = None)

\* what a run may take from the runs before it
FromSessionState ==
  /\ frontend = "book_agent" => run.probed
  /\ ~run.probed =>
       /\ session_state.connection_last_checked # NeverChecked
       /\ now - session_state.connection_last_checked <= CacheSeconds
       /\ run.sidebar = CachedBox(session_state.connection_status)
  /\ run.prefill # None => run.prefill \in QuickQueries
  /\ (run.pressed = "Ask AI" /\ run.status = "success") =>
       session_state.quick_query = None

\* C8 (amended): a Streamlit session keeps connection_status,
\* connection_last_checked and quick_query between runs. The sidebar of
\* book_agent sends its test request on every run; the sidebar of examples
\* shows the stored status, without a request, while that status is at most
\* 30 seconds old. The question box is filled with the quick_query an earlier
\* run stored, until an answered question clears it.
C8_OnlySessionState ==
  /\ [](Drawn => FromSessionState)
  /\ [][/\ run'.prefill = (IF run'.text_area THEN Prefill(session_state) ELSE None)
        /\ ~run'.probed => run'.sidebar = CachedBox(session_state.connection_status)]_vars

\* the examples page shows "connected" from a test made 30 seconds ago and a
\* question stored by an earlier run
C8_Witness ==
  /\ frontend = "examples"
  /\ run.page = "AI Assistant"
  /\ ~run.probed
  /\ run.sidebar = "connected"
  /\ now - session_state.connection_last_checked = CacheSeconds
  /\ run.prefill \in QuickQueries

\* --------------------------------------------------------------- claim C11
\* the stored episodes of user u that carry book_message_id b
StoredWith(u, b) ==
  {i \in 1..Len(episodes) : episodes[i].producer = u /\ episodes[i].book_message_id = b}

\* C11: a book message is processed at most once: whatever the order and the
\* interleaving of the POST /memory requests that carry the same non-empty
\* book_message_id for one user, the backend holds at most one episode with
\* that id, and a request that starts after one was stored is skipped.
C11_ProcessedAtMostOnce ==
  \A u \in Users, b \in BookMessageIds :
    Truthy(b) => Cardinality(StoredWith(u, b)) <= 1

\* two requests of one user with one id both passed the duplicate check
\* against a backend that answered each search and each store with 200
C11_Race ==
  /\ \A r \in ReqIds :
       /\ req[r].endpoint = "store_data"
       /\ req[r].user_id = "u1"
       /\ req[r].book_message_id = Str(<<"m1">>)
       /\ req[r].processed = "False"
       /\ req[r].response.status = "success"
  /\ Cardinality(StoredWith("u1", Str(<<"m1">>))) = 2

\* --------------------------------------------------------------- claim C12
Checked(r) == req[r].processed # ""

\* the search answered with a status that raise_for_status lets pass and a
\* JSON object
AnsweredSuccessfully(a) == a.exc = "" /\ a.status \in 200..399 /\ a.body = "dict"

\* C12: is_book_message_processed(id, user, session) searches for
\* "book_message_id <id>" with limit 5 and filter producer_id = user, and
\* returns True exactly when that search answers successfully and some
\* returned episodic memory is a dict whose metadata is a dict with
\* book_message_id = id; in every other case it returns False.
C12_DuplicateCheck ==
  \A r \in ReqIds :
    Checked(r) =>
      LET a == req[r].checked
          d == req[r].out[1]
          id == req[r].book_message_id
      IN /\ d.kind = "search"
         /\ d.text = <<"book_message_id", " ">> \o id.s
         /\ d.limit = 5
         /\ d.filter = req[r].user_id
         /\ req[r].processed \in {"True", "False", "check failed"}
         /\ (req[r].processed = "True") <=>
              /\ AnsweredSuccessfully(a)
              /\ \E i \in 1..Len(a.episodic_memory) :
                   /\ a.episodic_memory[i].shape = "dict"
                   /\ a.episodic_memory[i].book_message_id = id

\* one check passed over a bare string and found the id in the next memory,
\* another read a memory that names the id outside any metadata
C12_Witness ==
  /\ req[1].processed = "True"
  /\ Len(req[1].checked.episodic_memory) = 2
  /\ req[1].checked.episodic_memory[1].shape = "str"
  /\ Checked(2)

\* --------------------------------------------------------------- claim C13
\* C13: in POST /memory a non-empty book_message_id that
\* is_book_message_processed reports as processed ends the request with
\* {"status": "skipped", "message": "Message already processed"} and no store
\* request; a book_message_id that is None or empty causes no duplicate check
\* (no search request) and the store request is sent directly.
C13_SkipOrStore ==
  \A r \in ReqIds :
    req[r].endpoint = "store_data" =>
      /\ req[r].processed = "True" =>
           /\ Truthy(req[r].book_message_id)
           /\ Finished(r)
           /\ req[r].response.status = "skipped"
           /\ req[r].response.message = "Message already processed"
           /\ Calls(r, "store") = {}
      /\ req[r].response.status = "skipped" => req[r].processed = "True"
      /\ ~Truthy(req[r].book_message_id) =>
           /\ Calls(r, "search") = {}
           /\ req[r].processed = ""
           /\ Finished(r) => (Len(req[r].out) = 1 /\ req[r].out[1].kind = "store")

\* one request was skipped as a duplicate, one with an empty id stored
C13_Witness ==
  /\ req[1].response.status = "skipped"
  /\ req[2].endpoint = "store_data"
  /\ req[2].book_message_id = Str(<< >>)
  /\ Finished(2)
  /\ StoredBy(2)

\* --------------------------------------------------------------- claim C14
\* C14: the duplicate check fails open: when its search times out, answers
\* with a non-2xx status or with a body that cannot be read,
\* is_book_message_processed returns False without raising and POST /memory
\* goes on to send the store request.
C14_FailsOpen ==
  \A r \in ReqIds :
    (Checked(r) /\ ~AnsweredSuccessfully(req[r].checked)) =>
      /\ req[r].processed = "check failed"
      /\ req[r].response.status # "skipped"
      /\ req[r].pc \in {"sd_store", "done"}
      /\ Finished(r) =>
           /\ Calls(r, "store") # {}
           /\ req[r].out[Len(req[r].out)].text = req[r].query

\* a check that timed out let a second episode with a known id be stored
C14_Witness ==
  \E r \in ReqIds :
    /\ req[r].checked.exc = "Timeout"
    /\ StoredBy(r)
    /\ req[r].response.status = "success"
    /\ Cardinality(StoredWith(req[r].user_id, req[r].book_message_id)) = 2

\* --------------------------------------------------------------- claim C15
\* response.choices[0].message.content, where there is one
FirstChoiceContent(outcome) == IF outcome = "content" THEN Str(<<"AI answer">>) ELSE None

\* what holds of every call of generate_openai_response whatever the answer:
\* it does not raise, returns a string, returns the notice without a call
\* when the key is unset or empty, and the error text when the call raises
NeverRaises(r) ==
  LET g == req[r].llm
  IN /\ g.raised = NoExc
     /\ g.value.t = "str"
     /\ ~Truthy(api_key) =>
          /\ g.value.s = <<"OpenAI API key not configured">>
          /\ Calls(r, "llm") = {}
     /\ Truthy(api_key) =>
          /\ Cardinality(Calls(r, "llm")) = 1
          /\ g.outcome = "APIError" =>
               g.value.s = <<"Error generating AI response: ", "APIError">>

\* C15 as stated: generate_openai_response never raises and returns a string:
\* the notice without a key, the error text when the API call raises, and
\* otherwise the content of the first choice.
C15_Original ==
  \A r \in ReqIds :
    req[r].llm.ran =>
      /\ NeverRaises(r)
      /\ (Truthy(api_key) /\ req[r].llm.outcome # "APIError") =>
           req[r].llm.value = FirstChoiceContent(req[r].llm.outcome)

\* C15 (amended): generate_openai_response never raises and returns a string:
\* the notice without a key, the content of the first choice when that is a
\* string, and the error text when the API call raises and also when the
\* answer has no choice or its first choice has no content.
C15_AlwaysAString ==
  \A r \in ReqIds :
    req[r].llm.ran =>
      /\ NeverRaises(r)
      /\ (Truthy(api_key) /\ req[r].llm.outcome = "content") =>
           req[r].llm.value = FirstChoiceContent("content")
      /\ (Truthy(api_key) /\ req[r].llm.outcome \in {"no content", "no choices"}) =>
           /\ Len(req[r].llm.value.s) = 2
           /\ req[r].llm.value.s[1] = "Error generating AI response: "

\* one call got a first choice without content, the other one with content
C15_Witness ==
  /\ Truthy(api_key)
  /\ req[1].llm.outcome = "no content"
  /\ req[2].llm.outcome = "content"

\* --------------------------------------------------------------- claim C16
\* the texts generate_openai_response returns in place of an answer
IsWarningText(t) ==
  /\ t # << >>
  /\ t[1] \in {"OpenAI API key not configured", "Error generating AI response: "}

RECURSIVE NewlineJoined(_)
\* the str() of each memory, one per line
NewlineJoined(mems) ==
  IF mems = << >> THEN << >>
  ELSE IF Len(mems) = 1 THEN <<"{'content': '">> \o mems[1].content \o <<"'}">>
  ELSE <<"{'content': '">> \o mems[1].content \o <<"'}", "\n">> \o NewlineJoined(Tail(mems))

\* C16: every response of POST /ai-query with status "success" has response
\* equal to ai_response, query equal to the request's query and context
\* equal to the newline-joined episodic memories of the search; the status is
\* "success" whenever search and prompt construction succeeded, also when
\* the LLM call failed or the key is missing, and ai_response then holds the
\* warning text.
C16_SuccessShape ==
  \A r \in ReqIds :
    (req[r].endpoint = "process_ai_query" /\ Finished(r)) =>
      LET resp == req[r].response
      IN /\ resp.status \in {"success", "error"}
         /\ resp.status = "success" =>
              /\ resp.response = resp.ai_response
              /\ resp.query = req[r].query
              /\ resp.context = NewlineJoined(req[r].found.episodic_memory)
              /\ resp.formatted_query = req[r].formatted_query
         /\ resp.status = "success" <=> req[r].llm.ran
         /\ resp.status = "error" =>
              /\ req[r].raised # NoExc
              /\ req[r].formatted_query = << >>
         /\ (req[r].llm.ran /\ (~Truthy(api_key) \/ req[r].llm.outcome # "content")) =>
              IsWarningText(resp.ai_response)
         /\ (req[r].llm.ran /\ Truthy(api_key) /\ req[r].llm.outcome = "content") =>
              ~IsWarningText(resp.ai_response)

\* a success whose search found an episode and whose LLM call raised
C16_Witness ==
  \E r \in ReqIds :
    /\ req[r].endpoint = "process_ai_query"
    /\ req[r].response.status = "success"
    /\ req[r].found.episodic_memory # << >>
    /\ req[r].llm.outcome = "APIError"

\* --------------------------------------------------------------- claim C17
\* the HTTP call was answered, with a status other than 200
AnsweredNot200(a) == a.exc = "" /\ a.status # 0 /\ a.status # 200

\* C17: POST /memory/store-and-search sends its store request before its
\* search request; a store answered with a status other than 200 ends the
\* request with status "error" and "Store failed with ...", no search sent
\* and no prompt built; a search answered with a status other than 200 ends
\* it with status "error" and "Search failed with ...".
C17_StoreThenSearch ==
  \A r \in ReqIds :
    req[r].endpoint = "store_and_search_data" =>
      LET q == req[r]
      IN /\ \A i \in Calls(r, "search") : \E j \in Calls(r, "store") : j < i
         /\ Len(q.out) <= 2
         /\ AnsweredNot200(q.store_response) =>
              /\ Finished(r)
              /\ q.response.kind = "dict"
              /\ q.response.status = "error"
              /\ q.response.message =
                   "Store failed with " \o ToString(q.store_response.status) \o ": ..."
              /\ Calls(r, "search") = {}
              /\ q.formatted_query = << >>
         /\ AnsweredNot200(q.search_response) =>
              /\ Finished(r)
              /\ q.response.kind = "dict"
              /\ q.response.status = "error"
              /\ q.response.message =
                   "Search failed with " \o ToString(q.search_response.status) \o ": ..."
              /\ q.formatted_query = << >>

\* a store answered 201 ended the request before any search, and another
\* request's search was answered 500
C17_Witness ==
  \E r, t \in ReqIds :
    /\ req[r].endpoint = "store_and_search_data"
    /\ req[r].store_response.status = 201
    /\ req[r].response.status = "error"
    /\ req[t].endpoint = "store_and_search_data"
    /\ req[t].search_response.status = 500
    /\ req[t].response.status = "error"

\* --------------------------------------------------------------- claim C18
\* C18: whenever POST /memory/store-and-search returns status "error", also
\* for an empty or whitespace-only query, the memory backend holds no new
\* episode from that request.
C18_ErrorMeansNothingStored ==
  \A r \in ReqIds :
    (/\ req[r].endpoint = "store_and_search_data"
     /\ Finished(r)
     /\ req[r].response.status = "error") => ~StoredBy(r)

\* a whitespace-only query was stored and then refused by create_query
C18_BlankQueryStored ==
  \E r \in ReqIds :
    /\ req[r].endpoint = "store_and_search_data"
    /\ req[r].query = <<" ">>
    /\ req[r].store_response.status = 200
    /\ req[r].search_response.status = 200
    /\ req[r].response = ErrorResponse("Query cannot be empty")
    /\ StoredBy(r)

\* --------------------------------------------------------------- claim C19
\* store_book_data returned its timeout error for the call r
StoreTimedOut(r) ==
  /\ ui[r].fn = "store_book_data"
  /\ ui[r].pc = "returned"
  /\ ui[r].result = ErrorResult("Request timed out. Please try again.")

\* C19: when store_book_data returns "Request timed out. Please try again."
\* the submission is not stored in the memory backend then or later, so a
\* user who retries the submission after a timeout ends with at most one
\* episode for it.
C19_TimeoutMeansNotStored ==
  /\ \A r \in ReqIds : StoreTimedOut(r) => ~StoredBy(r)
  /\ \A r, t \in ReqIds :
       (/\ r # t
        /\ StoreTimedOut(r)
        /\ ui[t].fn = "store_book_data"
        /\ req[t].user_id = req[r].user_id
        /\ req[t].query = req[r].query) => ~(StoredBy(r) /\ StoredBy(t))

\* the submission timed out, was retried, and the backend holds it twice
C19_RetryStoredTwice ==
  /\ StoreTimedOut(1)
  /\ ui[2].fn = "store_book_data"
  /\ ui[2].shown = "Book logged successfully!"
  /\ req[2].user_id = req[1].user_id
  /\ req[2].query = req[1].query
  /\ StoredBy(1)
  /\ StoredBy(2)

\* --------------------------------------------------------------- claim C20
\* the prompts that can be built for query from the episodes of user u alone:
\* from the first n of them and any profile memory
PromptsFrom(u, query) ==
  LET own == SelectSeq2(episodes, u)
  IN {BuildPrompt(query,
                  Answer(200, "dict", [i \in 1..n |-> Memory(own[i])], p)).value :
        n \in 0..Len(own), p \in ProfileMemories}

\* C20: every store and search request sent for user u has a session with
\* group_id u, user_id [u] and session_id "session_" + u, every store names
\* u as its producer and every search filters on producer_id u, so no
\* request for one user names another; every memory a request reads was
\* produced by its user, and the prompt built for a user is one that the
\* user's own episodes give, whatever the other user's episodes are.
C20_UserConfinement ==
  \A r \in ReqIds :
    LET u == req[r].user_id
        q == req[r]
    IN /\ \A i \in Calls(r, "store") \cup Calls(r, "search") :
            /\ q.out[i].session.group_id = u
            /\ q.out[i].session.user_id = <<u>>
            /\ q.out[i].session.session_id = "session_" \o u
            /\ q.out[i].kind = "store" => q.out[i].producer = u
            /\ q.out[i].kind = "search" => q.out[i].filter = u
       /\ \A i \in 1..Len(q.found.episodic_memory) :
            q.found.episodic_memory[i].producer = u
       /\ \A i \in 1..Len(q.checked.episodic_memory) :
            q.checked.episodic_memory[i].producer = u
       /\ q.formatted_query # << >> => q.formatted_query \in PromptsFrom(u, q.query)

\* u1's prompt was built from u1's episode while the backend held one of u2
C20_Witness ==
  \E r \in ReqIds :
    /\ req[r].user_id = "u1"
    /\ Calls(r, "search") # {}
    /\ req[r].found.episodic_memory # << >>
    /\ req[r].formatted_query # << >>
    /\ \E i \in 1..Len(episodes) : episodes[i].producer = "u2"

====
